---- MODULE Spec2Model ----
(***************************************************************************)
(* Model of the scripts of JsDistibutedAdventure:                          *)
(*   pictures/rename_by_age.py  - the age-based renamer                    *)
(*   run.py, play_latest.py, play_story_choice.py - the launchers          *)
(* File names are sequences of one-character strings, so that globbing,    *)
(* startswith('0') and the f"{i:04d}.jpg" formatting are computed on the   *)
(* characters, as the code computes them.                                  *)
(***************************************************************************)
EXTENDS Integers, Sequences, FiniteSets, TLC

\* ------------------------------------------------------------------ bounds
MaxFiles == 3       \* directory entries at the start of a run
MaxPasses == 2      \* consecutive runs of rename_by_age.py on one directory
BulkCount == 1001   \* image files in the large directory of SpecBig
MaxStories == 3     \* story files in stories/

\* ------------------------------------------------------- names and strings
JPG == <<".", "j", "p", "g">>

\* The directory entries the initial directories are drawn from.
NamePool ==
  << <<"a">> \o JPG,
     <<"b", ".", "J", "P", "G">>,
     <<"c", ".", "j", "p", "e", "g">>,
     <<"d", ".", "J", "p", "g">>,
     <<".", "h">> \o JPG,
     <<"0", "0", "0", "0">> \o JPG,
     <<"0", "0", "0", "1">> \o JPG,
     <<"n", ".", "t", "x", "t">> >>

\* str.lower() on the letters that occur in the extensions
Lower(c) ==
  CASE c = "J" -> "j"
    [] c = "P" -> "p"
    [] c = "E" -> "e"
    [] c = "G" -> "g"
    [] OTHER -> c

\* os.path.normcase: lower-cases on Windows, the identity on POSIX
NormCase(plat, s) ==
  IF plat = "win" THEN [k \in DOMAIN s |-> Lower(s[k])] ELSE s

\* str.endswith
EndsWith(s, suf) ==
  /\ Len(s) >= Len(suf)
  /\ SubSeq(s, Len(s) - Len(suf) + 1, Len(s)) = suf

\* str.startswith('0')
StartsWithZero(s) == Len(s) > 0 /\ s[1] = "0"

\* glob._ishidden
IsHidden(s) == Len(s) > 0 /\ s[1] = "."

\* fnmatch.filter(names, '*' + ext) for one name: the pattern and, on
\* Windows, the name go through normcase before the match.
FnMatch(plat, name, ext) ==
  EndsWith(NormCase(plat, name), NormCase(plat, ext))

\* glob.glob('*' + ext) over the directory listing `listing`
Glob(plat, listing, ext) ==
  SelectSeq(listing, LAMBDA n : ~IsHidden(n) /\ FnMatch(plat, n, ext))

\* The four patterns of line 7, in the order they are concatenated
Patterns ==
  << JPG,
     <<".", "J", "P", "G">>,
     <<".", "j", "p", "e", "g">>,
     <<".", "J", "P", "E", "G">> >>

\* jpg_files (line 7)
JpgFiles(plat, listing) ==
  Glob(plat, listing, Patterns[1]) \o Glob(plat, listing, Patterns[2])
    \o Glob(plat, listing, Patterns[3]) \o Glob(plat, listing, Patterns[4])

\* line 16 with the test left out
AlreadyRenamedNever(name) == FALSE

\* the `if not file.startswith('0')` test of line 16, negated
AlreadyRenamed(name) == StartsWithZero(name)

\* file_info before the sort (lines 14-18)
FileInfo(files, mt) ==
  LET kept == SelectSeq(files, LAMBDA n : ~AlreadyRenamed(n))
  IN  [k \in DOMAIN kept |-> <<kept[k], mt[kept[k]]>>]

\* list.sort(key=lambda x: x[1], reverse=True): descending by x[1], equal keys
\* keep their order (the sort is stable, also with reverse=True).
NewerThan(x, y) == x[2] > y[2]

SortNewestFirst(s) == SortSeq(s, NewerThan)

\* decimal digits of a natural number, most significant first
DigitChar == <<"0", "1", "2", "3", "4", "5", "6", "7", "8", "9">>

RECURSIVE Digits(_)
Digits(n) ==
  IF n < 10 THEN <<DigitChar[n + 1]>>
  ELSE Digits(n \div 10) \o <<DigitChar[(n % 10) + 1]>>

\* the minimum field width of the format spec 04d
PadWidth == 4

\* f"{i:04d}"
Fmt04d(n) ==
  LET d == Digits(n)
  IN  IF Len(d) >= PadWidth THEN d
      ELSE [k \in 1..(PadWidth - Len(d)) |-> "0"] \o d

\* new_name (line 29)
NewName(rank) == Fmt04d(rank) \o JPG

\* ------------------------------------------------------------ file system
\* line 32 with the test left out, and with the test negated
TargetExistsUnchecked(dir, new) == FALSE

TargetExistsNegated(dir, new) == new \notin DOMAIN dir

\* os.path.exists(new_name) (line 32)
TargetExists(dir, new) == new \in DOMAIN dir

\* os.rename(old_name, new_name) (line 37).  dir maps a name to the content
\* stored under it.  The call raises when the source is missing, when the
\* source may not be renamed, and on Windows when the target exists; on POSIX
\* an existing target is replaced.
OsRename(plat, dir, noaccess, old, new) ==
  IF old \notin DOMAIN dir \/ old \in noaccess
       \/ (plat = "win" /\ new \in DOMAIN dir /\ new # old)
  THEN [ok |-> FALSE, dir |-> dir]
  ELSE [ok |-> TRUE,
        dir |-> [n \in (DOMAIN dir \ {old}) \cup {new} |->
                   IF n = new THEN dir[old] ELSE dir[n]]]

\* file_info as the loop of line 28 sees it (lines 14-25)
RenamePlan(files, mt) == SortNewestFirst(FileInfo(files, mt))

\* lines 39-40 without the except clause: the exception ends the run
AfterRenameErrorRaised == "crashed"

\* where the loop goes after the except clause of lines 39-40
AfterRenameError == "loop"

\* lines 29-40: the body of the loop for the candidate at index idx (from 0)
\* of info, on the directory dir: the line it prints, the directory it
\* leaves and where control goes.
LoopBody(plat, dir, noaccess, info, idx) ==
  LET old_name == info[idx + 1][1]
      new_name == NewName(idx)
      r == OsRename(plat, dir, noaccess, old_name, new_name)
  IN  IF TargetExists(dir, new_name)
      THEN [kind |-> "Warning", old |-> old_name, new |-> new_name,
            dir |-> dir, pc |-> "loop"]
      ELSE IF r.ok
      THEN [kind |-> "Renamed", old |-> old_name, new |-> new_name,
            dir |-> r.dir, pc |-> "loop"]
      ELSE [kind |-> "Error", old |-> old_name, new |-> new_name,
            dir |-> dir, pc |-> AfterRenameError]

\* lines 28-40: the iterations st.idx .. hi-1 of the loop, in order (the
\* range is halved so that the evaluation stays shallow)
RECURSIVE LoopUpTo(_, _, _, _, _, _)
LoopUpTo(plat, noaccess, info, run, st, hi) ==
  IF st.pc # "loop" \/ st.idx >= hi THEN st
  ELSE IF hi - st.idx = 1
  THEN LET b == LoopBody(plat, st.dir, noaccess, info, st.idx)
       IN  [dir |-> b.dir, pc |-> b.pc, idx |-> st.idx + 1,
            log |-> Append(st.log, [run |-> run, kind |-> b.kind,
                                    old |-> b.old, new |-> b.new])]
  ELSE LET mid == st.idx + ((hi - st.idx) \div 2)
           half == LoopUpTo(plat, noaccess, info, run, st, mid)
       IN  LoopUpTo(plat, noaccess, info, run, half, hi)

\* lines 28-42: the whole loop, then the summary
WholeLoop(plat, noaccess, info, run, st) ==
  LET end == LoopUpTo(plat, noaccess, info, run, st, Len(info))
  IN  IF end.pc # "loop" THEN end
      ELSE [end EXCEPT !.pc = "done",
                       !.log = Append(@, [run |-> run, kind |-> "Summary",
                                          old |-> <<>>, new |-> <<>>])]

\* The listings os.scandir produces for a directory.  The order is the file
\* system's; two are modelled, by the age of the entries' contents ascending
\* and descending, which gives every pair of entries in both orders.
Listings(dir) ==
  LET names == DOMAIN dir
      held == {dir[x] : x \in names}
      top == IF held = {} THEN 0 ELSE CHOOSE c \in held : \A e \in held : e <= c
      ages == SelectSeq([c \in 1..top |-> c], LAMBDA c : c \in held)
      n == Len(ages)
      asc == [p \in 1..n |-> CHOOSE x \in names : dir[x] = ages[p]]
  IN  {asc, [p \in 1..n |-> asc[n + 1 - p]]}

\* --------------------------------------------------------------- the state
VARIABLES
  prog,        \* the script that was started
  platform,    \* "posix" or "win" (sys.platform, os.path)
  fs,          \* the directory: name |-> content (a file identity)
  mtime,       \* content |-> modification time
  locked,      \* names whose rename the OS refuses (PermissionError)
  pass,        \* which run of rename_by_age.py this is
  pc,          \* position in rename_images_by_age
  jpg_files,   \* line 7
  file_info,   \* lines 14-25
  i,           \* the loop index of line 28
  log,         \* the lines printed, all runs
  fs0,         \* the directory when the current run started
  lpc,         \* position of a launcher's main thread
  stories,     \* stories/*.json: story file |-> modification time
  story_file,  \* the story handed to run_story.js, 0 before one is picked
  available_stories,  \* play_story_choice.py: the stories offered
  choice_num,  \* play_story_choice.py: the accepted number, 0 before
  result,      \* what subprocess.call returned, -1 before it returns
  exit_code,   \* the launcher's exit status, -1 while none is set
  running,     \* Spinner.running
  spinner,     \* the spinner thread: "none", "spinning", "ended"
  frame,       \* the spinner's i, modulo len(spinner_chars)
  interrupted  \* a KeyboardInterrupt was raised in the main thread

renVars == <<fs, mtime, locked, pass, pc, jpg_files, file_info, i, log, fs0>>
launchVars == <<lpc, stories, story_file, available_stories, choice_num,
                result, exit_code, running, spinner, frame, interrupted>>
vars == <<prog, platform, renVars, launchVars>>

\* the launcher variables while the renamer runs
NoLauncher ==
  /\ lpc = "none"
  /\ stories = <<>>
  /\ story_file = 0
  /\ available_stories = <<>>
  /\ choice_num = 0
  /\ result = -1
  /\ exit_code = -1
  /\ running = FALSE
  /\ spinner = "none"
  /\ frame = 0
  /\ interrupted = FALSE

\* the renamer variables while a launcher runs
NoRenamer ==
  /\ fs = <<>>
  /\ mtime = <<>>
  /\ locked = {}
  /\ pass = 1
  /\ pc = "none"
  /\ jpg_files = <<>>
  /\ file_info = <<>>
  /\ i = 0
  /\ log = <<>>
  /\ fs0 = <<>>

Platforms == {"posix", "win"}

\* ------------------------------------------------------------------- Init
InitDirs ==
  {d \in SUBSET DOMAIN NamePool : Cardinality(d) <= MaxFiles}

\* The names of a directory that some platform's run can pick as a rename
\* source.  Only their modification times are read and only they are handed
\* to os.rename, so only they get a free time and may be locked.
Eligible(d) ==
  {c \in d : /\ ~StartsWithZero(NamePool[c])
             /\ ~IsHidden(NamePool[c])
             /\ \E k \in DOMAIN Patterns : FnMatch("win", NamePool[c], Patterns[k])}

\* The code only compares modification times, so they are drawn up to the
\* order they induce, ties included: the times in use are 1..k.
NoGaps(times) == \A t \in times : t = 1 \/ (t - 1) \in times

InitRename ==
  /\ prog = "rename"
  /\ platform \in Platforms
  /\ \E d \in InitDirs :
       /\ fs = [n \in {NamePool[c] : c \in d} |->
                  CHOOSE c \in d : NamePool[c] = n]
       /\ mtime \in {m \in [d -> 1..MaxFiles] :
                       /\ \A c \in d \ Eligible(d) : m[c] = 1
                       /\ NoGaps({m[c] : c \in Eligible(d)})}
       /\ locked \in {l \in SUBSET {NamePool[c] : c \in Eligible(d)} :
                        Cardinality(l) <= 1}
       /\ fs0 = fs
  /\ pass = 1
  /\ pc = "start"
  /\ jpg_files = <<>>
  /\ file_info = <<>>
  /\ i = 0
  /\ log = <<>>
  /\ NoLauncher

Launchers == {"run", "play_latest", "play_story_choice"}

\* A launcher starts with some story files in stories/ (possibly none).
InitLaunch ==
  /\ prog \in Launchers
  /\ platform \in Platforms
  /\ \E d \in SUBSET (1..MaxStories) :
       stories \in {m \in [d -> 1..MaxStories] : NoGaps({m[c] : c \in d})}
  /\ lpc = "node_check"
  /\ story_file = 0
  /\ available_stories = <<>>
  /\ choice_num = 0
  /\ result = -1
  /\ exit_code = -1
  /\ running = FALSE
  /\ spinner = "none"
  /\ frame = 0
  /\ interrupted = FALSE
  /\ NoRenamer

Init == InitRename \/ InitLaunch

\* A large directory: BulkCount image files p0001.jpg, p0002.jpg, ... with
\* pairwise distinct modification times and nothing else.
BulkName(c) == <<"p">> \o Fmt04d(c) \o JPG

InitBig ==
  /\ prog = "rename"
  /\ platform = "posix"
  /\ fs = [n \in {BulkName(c) : c \in 1..BulkCount} |->
             CHOOSE c \in 1..BulkCount : BulkName(c) = n]
  /\ mtime = [c \in 1..BulkCount |-> c]
  /\ locked = {}
  /\ fs0 = fs
  /\ pass = 1
  /\ pc = "start"
  /\ jpg_files = <<>>
  /\ file_info = <<>>
  /\ i = 0
  /\ log = <<>>
  /\ NoLauncher

\* --------------------------------------------------- rename_images_by_age
Line(kind, old, new) == [run |-> pass, kind |-> kind, old |-> old, new |-> new]

\* lines 7-25: list, filter, read the modification times, sort
Enumerate ==
  /\ prog = "rename"
  /\ pc = "start"
  /\ \E listing \in Listings(fs) :
       LET files == JpgFiles(platform, listing)
           plan == RenamePlan(files, [n \in DOMAIN fs |-> mtime[fs[n]]])
       IN  /\ jpg_files' = files
           /\ file_info' = plan
           /\ IF files = <<>>
              THEN /\ log' = Append(log, Line("NoJpgFiles", <<>>, <<>>))
                   /\ pc' = "done"
              ELSE IF plan = <<>>
              THEN /\ log' = Append(log, Line("NoFilesToRename", <<>>, <<>>))
                   /\ pc' = "done"
              ELSE /\ log' = log
                   /\ pc' = "loop"
  /\ i' = 0
  /\ UNCHANGED <<prog, platform, fs, mtime, locked, pass, fs0, launchVars>>

\* lines 28-40: one iteration of the loop
RenameStep ==
  /\ prog = "rename"
  /\ pc = "loop"
  /\ i < Len(file_info)
  /\ LET b == LoopBody(platform, fs, locked, file_info, i)
     IN  /\ log' = Append(log, Line(b.kind, b.old, b.new))
         /\ fs' = b.dir
         /\ pc' = b.pc
  /\ i' = i + 1
  /\ UNCHANGED <<prog, platform, mtime, locked, pass, jpg_files, file_info, fs0,
                 launchVars>>

\* line 42: the summary, after the last iteration
Summary ==
  /\ prog = "rename"
  /\ pc = "loop"
  /\ i = Len(file_info)
  /\ log' = Append(log, Line("Summary", <<>>, <<>>))
  /\ pc' = "done"
  /\ UNCHANGED <<prog, platform, fs, mtime, locked, pass, jpg_files, file_info, i,
                 fs0, launchVars>>

\* the script is started again on the directory the last run left
RunAgain ==
  /\ prog = "rename"
  /\ pc = "done"
  /\ pass < MaxPasses
  /\ pass' = pass + 1
  /\ pc' = "start"
  /\ jpg_files' = <<>>
  /\ file_info' = <<>>
  /\ i' = 0
  /\ fs0' = fs
  /\ UNCHANGED <<prog, platform, fs, mtime, locked, log, launchVars>>

\* -------------------------------------------------------------- launchers
\* the exit codes `node run_story.js <story>` ends with
ChildExitCodes == {0, 1, 2}

\* what a blocking call can do: return, raise an Exception, or be
\* interrupted by the user (KeyboardInterrupt)
Outcomes == {"ok", "error", "interrupt"}

\* sys.exit(code), or main() returning (code 0): the interpreter shuts down
SysExit(code) ==
  /\ exit_code' = code
  /\ lpc' = "shutdown"

\* A KeyboardInterrupt no except clause catches: traceback, the interpreter
\* shuts down; the status is that of a process killed by SIGINT.
Uncaught ==
  /\ interrupted' = TRUE
  /\ exit_code' = 130
  /\ lpc' = "shutdown"

\* the story files in the order Path.glob yields them
StoryListings(st) ==
  LET ids == SelectSeq([c \in 1..MaxStories |-> c], LAMBDA c : c \in DOMAIN st)
      n == Len(ids)
      asc == [p \in 1..n |-> <<ids[p], st[ids[p]]>>]
  IN  {asc, [p \in 1..n |-> asc[n + 1 - p]]}

\* max(story_files, key=mtime): the first of the newest in the listing
LatestOf(listing) ==
  LET k == CHOOSE k \in DOMAIN listing :
             /\ \A j \in DOMAIN listing : listing[j][2] <= listing[k][2]
             /\ \A j \in 1..(k - 1) : listing[j][2] < listing[k][2]
  IN  listing[k][1]

\* sorted(story_files, key=mtime, reverse=True), the files only
GetAllStories(listing) ==
  LET sorted == SortNewestFirst(listing)
  IN  [k \in DOMAIN sorted |-> sorted[k][1]]

\* line 73 of play_story_choice.py
AvailableStories(all) ==
  IF Len(all) > 1 THEN SubSeq(all, 1, Len(all) - 1) ELSE all

\* subprocess.run(["node", "--version"], check=True): run.py 167-173,
\* play_latest.py 39-54, play_story_choice.py 47-60.  The "Press Enter"
\* prompts of the launchers change nothing that is modelled and are left out.
NodeCheck ==
  /\ prog \in Launchers
  /\ lpc = "node_check"
  /\ \E o \in Outcomes :
       IF o = "ok"
       THEN /\ lpc' = IF prog = "play_story_choice" THEN "stories" ELSE "files_check"
            /\ UNCHANGED <<exit_code, interrupted>>
       ELSE IF o = "error"
       THEN SysExit(1) /\ UNCHANGED interrupted
       ELSE Uncaught
  /\ UNCHANGED <<prog, platform, renVars, stories, story_file, available_stories,
                 choice_num, result, running, spinner, frame>>

\* the required files: run.py 176-180 and the branch of 183, play_latest.py
\* 57-63
FilesCheck ==
  /\ prog \in {"run", "play_latest"}
  /\ lpc = "files_check"
  /\ \E missing \in BOOLEAN, generate \in BOOLEAN :
       IF missing
       THEN SysExit(1)
       ELSE /\ lpc' = IF prog = "run" /\ generate THEN "generate" ELSE "stories"
            /\ UNCHANGED exit_code
  /\ UNCHANGED <<prog, platform, renVars, stories, story_file, available_stories,
                 choice_num, result, running, spinner, frame, interrupted>>

\* run.py 70-71: spinner.start()
SpinnerStart ==
  /\ prog = "run"
  /\ lpc = "generate"
  /\ running' = TRUE
  /\ spinner' = "spinning"
  /\ lpc' = "generator_wait"
  /\ UNCHANGED <<prog, platform, renVars, stories, story_file, available_stories,
                 choice_num, result, exit_code, frame, interrupted>>

\* len(self.spinner_chars), run.py 45
SpinnerChars == 10

\* run.py 62-68: Spinner._spin, one turn of `while self.running`
Spin ==
  /\ prog = "run"
  /\ spinner = "spinning"
  /\ IF running
     THEN /\ frame' = (frame + 1) % SpinnerChars
          /\ spinner' = spinner
     ELSE /\ frame' = frame
          /\ spinner' = "ended"
  /\ UNCHANGED <<prog, platform, renVars, lpc, stories, story_file,
                 available_stories, choice_num, result, exit_code, running,
                 interrupted>>

\* run.py 73-150 and 185-187: the try block of generate_new_story around
\* subprocess.run(["node", "temp_generator.js"]).  A return and an Exception
\* both reach spinner.stop() (lines 138, 148), which clears the flag and
\* then joins the thread; a KeyboardInterrupt is no Exception, so neither
\* except clause nor any caller handles it.
GeneratorWait ==
  /\ prog = "run"
  /\ lpc = "generator_wait"
  /\ \E o \in Outcomes, rc \in ChildExitCodes :
       IF o = "ok"
       THEN /\ running' = FALSE
            /\ lpc' = IF rc = 0 THEN "join_ok" ELSE "join_failed"
            /\ UNCHANGED <<exit_code, interrupted>>
       ELSE IF o = "error"
       THEN /\ running' = FALSE
            /\ lpc' = "join_failed"
            /\ UNCHANGED <<exit_code, interrupted>>
       ELSE /\ running' = running
            /\ Uncaught
  /\ UNCHANGED <<prog, platform, renVars, stories, story_file, available_stories,
                 choice_num, result, spinner, frame>>

\* run.py 58-59: self.thread.join() in Spinner.stop, then 140-145 and
\* 185-203: generation done, main returns, or sys.exit(1)
SpinnerJoin ==
  /\ prog = "run"
  /\ lpc \in {"join_ok", "join_failed"}
  /\ spinner = "ended"
  /\ SysExit(IF lpc = "join_ok" THEN 0 ELSE 1)
  /\ UNCHANGED <<prog, platform, renVars, stories, story_file, available_stories,
                 choice_num, result, running, spinner, frame, interrupted>>

\* the file an existing story_file argument of run.py names (no story of
\* stories/ has this identity)
ExplicitPath == MaxStories + 1

\* run.py 206-219 (an explicit path, or find_latest_story of lines 23-34),
\* play_latest.py 66-71 (find_latest_story of lines 20-31)
FindStory ==
  /\ prog \in {"run", "play_latest"}
  /\ lpc = "stories"
  /\ \E arg \in {"none", "missing", "given"}, listing \in StoryListings(stories) :
       IF prog = "run" /\ arg = "missing"
       THEN SysExit(1) /\ UNCHANGED story_file
       ELSE IF prog = "run" /\ arg = "given"
       THEN /\ story_file' = ExplicitPath
            /\ lpc' = "call"
            /\ UNCHANGED exit_code
       ELSE IF listing = <<>>
       THEN SysExit(1) /\ UNCHANGED story_file
       ELSE /\ story_file' = LatestOf(listing)
            /\ lpc' = "call"
            /\ UNCHANGED exit_code
  /\ UNCHANGED <<prog, platform, renVars, stories, available_stories, choice_num,
                 result, running, spinner, frame, interrupted>>

\* play_story_choice.py 63-78: get_all_stories (lines 21-32) and the list
\* that is offered
OfferStories ==
  /\ prog = "play_story_choice"
  /\ lpc = "stories"
  /\ \E listing \in StoryListings(stories) :
       LET offered == AvailableStories(GetAllStories(listing))
       IN  IF listing = <<>> \/ offered = <<>>
           THEN SysExit(1) /\ UNCHANGED available_stories
           ELSE /\ available_stories' = offered
                /\ lpc' = "choose"
                /\ UNCHANGED exit_code
  /\ UNCHANGED <<prog, platform, renVars, stories, story_file, choice_num,
                 result, running, spinner, frame, interrupted>>

\* int(choice) of line 91 on the stripped input: decimal digits, with an
\* optional sign; anything else raises ValueError (ok is FALSE)
DigitValue(c) == CHOOSE v \in 0..9 : DigitChar[v + 1] = c

RECURSIVE Decimal(_)
Decimal(d) ==
  IF Len(d) = 0 THEN 0
  ELSE 10 * Decimal(SubSeq(d, 1, Len(d) - 1)) + DigitValue(d[Len(d)])

ParseInt(str) ==
  LET signed == Len(str) > 0 /\ str[1] \in {"-", "+"}
      d == IF signed THEN Tail(str) ELSE str
  IN  IF Len(d) = 0 \/ \E k \in DOMAIN d : d[k] \notin {DigitChar[v] : v \in DOMAIN DigitChar}
      THEN [ok |-> FALSE, val |-> 0]
      ELSE [ok |-> TRUE,
            val |-> IF signed /\ str[1] = "-" THEN 0 - Decimal(d) ELSE Decimal(d)]

\* what the user types at the prompt: the numbers up to one past the number
\* of stories, a negative number, a word, nothing
Typed ==
  {Digits(n) : n \in 0..(MaxStories + 1)} \cup {<<"-", "1">>, <<"x">>, <<>>}

\* play_story_choice.py 88-101: one turn of the input loop
Choose ==
  /\ prog = "play_story_choice"
  /\ lpc = "choose"
  /\ \E o \in {"ok", "interrupt"}, typed \in Typed :
       IF o = "interrupt"
       THEN /\ interrupted' = TRUE
            /\ SysExit(0)
            /\ UNCHANGED <<story_file, choice_num>>
       ELSE IF ParseInt(typed).ok
                 /\ 1 <= ParseInt(typed).val
                 /\ ParseInt(typed).val <= Len(available_stories)
       THEN /\ choice_num' = ParseInt(typed).val
            /\ story_file' = available_stories[ParseInt(typed).val]
            /\ lpc' = "call"
            /\ UNCHANGED <<exit_code, interrupted>>
       ELSE UNCHANGED <<lpc, story_file, choice_num, exit_code, interrupted>>
  /\ UNCHANGED <<prog, platform, renVars, stories, available_stories, result,
                 running, spinner, frame>>

\* subprocess.call(["node", "run_story.js", story]) and what follows it:
\* run.py 222-256, play_latest.py 78-104, play_story_choice.py 108-129.
\* The value returned is bound to `result` and main returns.
CallStory ==
  /\ prog \in Launchers
  /\ lpc = "call"
  /\ \E o \in Outcomes, rc \in ChildExitCodes :
       IF o = "ok"
       THEN /\ result' = rc
            /\ SysExit(0)
            /\ UNCHANGED interrupted
       ELSE IF o = "error"
       THEN /\ result' = result
            /\ SysExit(IF prog = "run" THEN 1 ELSE 0)
            /\ UNCHANGED interrupted
       ELSE /\ result' = result
            /\ interrupted' = TRUE
            /\ SysExit(0)
  /\ UNCHANGED <<prog, platform, renVars, stories, story_file, available_stories,
                 choice_num, running, spinner, frame>>

\* interpreter shutdown: threading._shutdown joins the threads that are not
\* daemons (the spinner thread of run.py 52 is none), then the process ends
Shutdown ==
  /\ prog \in Launchers
  /\ lpc = "shutdown"
  /\ spinner # "spinning"
  /\ lpc' = "exited"
  /\ UNCHANGED <<prog, platform, renVars, stories, story_file, available_stories,
                 choice_num, result, exit_code, running, spinner, frame,
                 interrupted>>

MainThread ==
  \/ NodeCheck
  \/ FilesCheck
  \/ SpinnerStart
  \/ GeneratorWait
  \/ SpinnerJoin
  \/ FindStory
  \/ OfferStories
  \/ Choose
  \/ CallStory
  \/ Shutdown

Next ==
  \/ Enumerate
  \/ RenameStep
  \/ Summary
  \/ RunAgain
  \/ MainThread
  \/ Spin

Spec == Init /\ [][Next]_vars

\* lines 28-42 as one step: the whole loop and the summary
RenamePass ==
  /\ prog = "rename"
  /\ pc = "loop"
  /\ i = 0
  /\ LET end == WholeLoop(platform, locked, file_info, pass,
                          [dir |-> fs, pc |-> pc, idx |-> i, log |-> log])
     IN  /\ fs' = end.dir
         /\ log' = end.log
         /\ i' = end.idx
         /\ pc' = end.pc
  /\ UNCHANGED <<prog, platform, mtime, locked, pass, jpg_files, file_info, fs0,
                 launchVars>>

\* The renamer with each pass taken as one step, on the small directories
\* and on the large one.
NextPasses ==
  \/ Enumerate
  \/ RenamePass
  \/ RunAgain

SpecBig == (InitRename \/ InitBig) /\ [][NextPasses]_vars

\* Both threads of a launcher are scheduled, and the calls the main thread
\* blocks in return.
FairSpec == Spec /\ WF_vars(MainThread) /\ WF_vars(Spin)

\* ------------------------------------------------- vocabulary of the claims
Range(s) == {s[k] : k \in DOMAIN s}
Count(s, x) == Cardinality({k \in DOMAIN s : s[k] = x})

\* a name that ends in .jpg or .jpeg, compared case-insensitively
IsImageName(n) ==
  \/ EndsWith(NormCase("win", n), Patterns[1])
  \/ EndsWith(NormCase("win", n), Patterns[3])

\* a name of the form NNNN.jpg: digits, at least PadWidth of them, then .jpg
IsTargetName(n) ==
  /\ EndsWith(n, JPG)
  /\ Len(n) >= PadWidth + Len(JPG)
  /\ \A k \in 1..(Len(n) - Len(JPG)) : n[k] \in Range(DigitChar)

\* the lines the loop of the current run has printed, one per iteration
Attempts ==
  SelectSeq(log, LAMBDA e : e.run = pass /\ e.kind \in {"Renamed", "Warning", "Error"})

LogKinds(run) == {log[k].kind : k \in {j \in DOMAIN log : log[j].run = run}}

NoRenameFailed == \A k \in DOMAIN log : log[k].kind # "Error"

\* ---------------------------------------------------------------------- C1
\* C1: in a directory whose image files have pairwise distinct modification
\* times, with no NNNN.jpg present beforehand (and no rename refused), after
\* one pass no file was listed or ranked twice and the k-th newest candidate
\* is stored under the name of rank k, newest first, no rank skipped.
C1_Precondition ==
  /\ locked = {}
  /\ \A n \in DOMAIN fs0 : ~IsTargetName(n)
  /\ \A n, m \in DOMAIN fs0 :
       (n # m /\ IsImageName(n) /\ IsImageName(m)) => mtime[fs0[n]] # mtime[fs0[m]]

C1_RankedNewestFirst ==
  (prog = "rename" /\ pass = 1 /\ pc = "done" /\ C1_Precondition) =>
    /\ \A j, k \in DOMAIN file_info :
         (j < k) => /\ file_info[j][1] # file_info[k][1]
                    /\ file_info[j][2] > file_info[k][2]
    /\ \A k \in DOMAIN file_info :
         /\ NewName(k - 1) \in DOMAIN fs
         /\ fs[NewName(k - 1)] = fs0[file_info[k][1]]

\* ---------------------------------------------------------------------- C2
\* C2: no step of a pass overwrites or loses a file: the contents in the
\* directory stay those the pass started with, each under exactly one name,
\* and an iteration whose target name exists leaves the directory as it is
\* and prints the warning that names the skipped source.
Contents(dir) == {dir[n] : n \in DOMAIN dir}

C2_NoOverwrite ==
  [][prog = "rename" =>
       /\ Contents(fs') = Contents(fs0')
       /\ Cardinality(DOMAIN fs') = Cardinality(DOMAIN fs0')
       /\ (pc = "loop" /\ i < Len(file_info) /\ NewName(i) \in DOMAIN fs) =>
            /\ fs' = fs
            /\ log' = Append(log, [run |-> pass, kind |-> "Warning",
                                   old |-> file_info[i + 1][1], new |-> NewName(i)])]_vars

C2_Witness ==
  /\ prog = "rename" /\ pass = 1 /\ pc = "done"
  /\ {"Warning", "Renamed"} \subseteq LogKinds(1)
  /\ \E n \in DOMAIN fs0 : IsTargetName(n) /\ n \in DOMAIN fs /\ fs[n] = fs0[n]

\* ---------------------------------------------------------------------- C3
\* C3: the enumeration of line 7 holds every file whose name ends in .jpg or
\* .jpeg, compared case-insensitively, exactly once.
C3_EachImageOnce ==
  (prog = "rename" /\ pc # "start") =>
    \A n \in DOMAIN fs0 : IsImageName(n) => Count(jpg_files, n) = 1

\* ---------------------------------------------------------------------- C4
\* C4: a step changes what a name holds only if that name is a candidate of
\* the pass, and a name that starts with 0 is never one; a pass whose
\* candidate list is empty ends with the directory as it found it.
C4_OnlyCandidatesRenamed ==
  [][prog = "rename" =>
       /\ \A n \in DOMAIN fs :
            (n \notin DOMAIN fs' \/ fs'[n] # fs[n]) =>
              /\ ~StartsWithZero(n)
              /\ \E k \in DOMAIN file_info : file_info[k][1] = n
       /\ (pc' = "done" /\ file_info' = <<>>) => fs' = fs0']_vars

C4_Witness ==
  /\ prog = "rename" /\ pass = 2 /\ pc = "done"
  /\ jpg_files # <<>> /\ file_info = <<>>
  /\ "Renamed" \in LogKinds(1)
  /\ \A k \in DOMAIN jpg_files : StartsWithZero(jpg_files[k])
  /\ fs = fs0

\* ---------------------------------------------------------------------- C6
\* C6: a failed rename is reported and the pass goes on: every candidate up
\* to the loop index has its line, with its own rank's target name; the pass
\* ends only after the last candidate; and what was renamed earlier in the
\* pass is still stored under its new name.
C6_ErrorsDoNotAbort ==
  prog = "rename" =>
    /\ pc \in {"start", "loop", "done"}
    /\ (pc # "start" /\ file_info # <<>>) =>
         /\ Len(Attempts) = i
         /\ pc = "done" => i = Len(file_info)
         /\ \A k \in 1..i :
              /\ Attempts[k].old = file_info[k][1]
              /\ Attempts[k].new = NewName(k - 1)
              /\ Attempts[k].kind = "Renamed" =>
                   /\ Attempts[k].new \in DOMAIN fs
                   /\ fs[Attempts[k].new] = fs0[Attempts[k].old]

C6_Witness ==
  /\ prog = "rename" /\ pass = 1 /\ pc = "done"
  /\ Len(Attempts) = 3
  /\ Attempts[1].kind = "Renamed"
  /\ Attempts[2].kind = "Error" /\ Attempts[2].old \in locked
  /\ Attempts[3].kind = "Renamed"

C5_OutputNeverCandidate ==
  (prog = "rename" /\ pass >= 2 /\ pc # "start") =>
    \A k \in DOMAIN log :
      (log[k].kind = "Renamed" /\ log[k].run < pass) =>
        \A j \in DOMAIN file_info : file_info[j][1] # log[k].new

\* ---------------------------------------------------------------------- C7
\* C7: a launcher that ran `node run_story.js <story>` to its end exits with
\* a nonzero status when the child did, and with zero when the child did.
C7_ExitStatusSurfaced ==
  (prog \in Launchers /\ lpc = "exited" /\ result # -1) =>
    ((exit_code = 0) <=> (result = 0))

\* ---------------------------------------------------------------------- C8
\* C8: after a KeyboardInterrupt the launcher eventually has exited, with
\* the spinner's flag cleared and the spinner thread ended.
C8_InterruptTerminates ==
  interrupted ~> (lpc = "exited" /\ ~running /\ spinner # "spinning")

\* --------------------------------------------------------------------- C10
\* C10: the story play_story_choice.py plays is never the oldest one: the
\* offered list leaves out the story with the smallest modification time,
\* and the story played is the offered one the accepted number names.
IsOldest(c) ==
  /\ c \in DOMAIN stories
  /\ \A d \in DOMAIN stories \ {c} : stories[c] < stories[d]

C10_NeverTheOldest ==
  (prog = "play_story_choice" /\ lpc \in {"choose", "call", "shutdown", "exited"}
     /\ available_stories # <<>>) =>
    /\ \A k \in DOMAIN available_stories : ~IsOldest(available_stories[k])
    /\ story_file # 0 =>
         /\ choice_num \in 1..Len(available_stories)
         /\ story_file = available_stories[choice_num]
         /\ ~IsOldest(story_file)

====
